---- MODULE Spec2Model ----
(***************************************************************************)
(* The bill-analysis hook useVerizonBillAnalyzer (src/unnamed/part_001)    *)
(* and the component that drives it (src/unnamed/part_000): the            *)
(* normalizer enhanceBillData, the category aggregator                     *)
(* calculateChargesByCategory, the savings estimator                       *)
(* calculateCarrierSavings, and the hook's state with its asynchronous     *)
(* upload and manual-entry operations.                                     *)
(*                                                                         *)
(* JavaScript values are tagged records; an absent property is the value   *)
(* Undefined.  Every number is an integer count of thousandths, so that    *)
(* 99.99, 0.7, 1.05 and 0.08 are computed exactly.                         *)
(***************************************************************************)
EXTENDS Integers, Sequences, FiniteSets, Bags, TLC

VARIABLES
  billData,           \* useState: the current analysis, or Null
  fileSelected,       \* useState
  isLoading,          \* useState
  errorMessage,       \* useState: Null or a message
  ocrProvider,        \* useState: Null or a provider name
  inputMethod,        \* component useState: "none", "upload" or "manual"
  networkPreference,  \* component useState: Null or a carrier
  showNetworkError,   \* component useState
  ops,                \* the asynchronous operations in flight, a bag
  call                \* the last call of a pure function: input and result

vars == <<billData, fileSelected, isLoading, errorMessage, ocrProvider,
          inputMethod, networkPreference, showNetworkError, ops, call>>

hookVars == <<billData, fileSelected, isLoading, errorMessage, ocrProvider>>
componentVars == <<inputMethod, networkPreference, showNetworkError>>

---------------------------------------------------------------------------
(* JavaScript values *)

Undefined == [t |-> "undefined"]
Null == [t |-> "null"]
NaN == [t |-> "NaN"]
Num(n) == [t |-> "number", v |-> n]
Str(s) == [t |-> "string", v |-> s]
Arr(s) == [t |-> "array", v |-> s]
PlainObject == [t |-> "object"]

\* n dollars (or n units) as thousandths
D(n) == n * 1000

\* ToBoolean
Truthy(x) ==
  CASE x.t = "undefined" -> FALSE
    [] x.t = "null" -> FALSE
    [] x.t = "NaN" -> FALSE
    [] x.t = "number" -> x.v # 0
    [] x.t = "string" -> x.v # ""
    [] OTHER -> TRUE

\* a || b
OrElse(a, b) == IF Truthy(a) THEN a ELSE b

\* x * (num/den) for a decimal literal num/den: NaN unless x is a number
Times(x, num, den) ==
  IF x.t = "number" THEN Num((x.v * num) \div den) ELSE NaN

\* a - b
Minus(a, b) ==
  IF a.t = "number" /\ b.t = "number" THEN Num(a.v - b.v) ELSE NaN

\* a + b on numbers
Plus(a, b) ==
  IF a.t = "number" /\ b.t = "number" THEN Num(a.v + b.v) ELSE NaN

\* obj?.prop for the property customerName
CustomerNameOf(accountInfo) ==
  IF accountInfo.t = "object" THEN accountInfo.customerName ELSE Undefined

\* value.length
LengthOf(x) == IF x.t = "array" THEN Num(Len(x.v)) ELSE Undefined

---------------------------------------------------------------------------
(* Records of the data model.  Every property an object may carry is a     *)
(* field; a property the object does not carry holds Undefined.            *)

\* BillLineDetails
Details(planCost, planDiscount, devicePayment, deviceCredit, protection, taxes) ==
  [t |-> "object", planCost |-> planCost, planDiscount |-> planDiscount,
   devicePayment |-> devicePayment, deviceCredit |-> deviceCredit,
   protection |-> protection, surcharges |-> Undefined, taxes |-> taxes]

\* PhoneLine
Line(phoneNumber, deviceName, ownerName, planName, monthlyTotal, details) ==
  [t |-> "object", phoneNumber |-> phoneNumber, deviceName |-> deviceName,
   ownerName |-> ownerName, planName |-> planName,
   monthlyTotal |-> monthlyTotal, details |-> details]

\* a chargesByCategory object: the legacy keys and the display keys
\* ("Plan Charges", "Device Payments", "Services & Add-ons", "Taxes & Fees")
Charges(plans, devices, services, taxes, pc, dp, sa, tf) ==
  [t |-> "object", plans |-> plans, devices |-> devices,
   services |-> services, taxes |-> taxes,
   PlanCharges |-> pc, DevicePayments |-> dp,
   ServicesAddOns |-> sa, TaxesFees |-> tf]

DisplayCharges(pc, dp, sa, tf) ==
  Charges(Undefined, Undefined, Undefined, Undefined, pc, dp, sa, tf)

\* the usageAnalysis literal of enhanceBillData
DefaultUsageAnalysis ==
  [t |-> "object", trend |-> Str("stable"), percentageChange |-> Num(0),
   avg_data_usage_gb |-> Num(25400), avg_talk_minutes |-> Num(D(120)),
   avg_text_messages |-> Num(D(85))]

\* the usageAnalysis literal of addManualLineCharges
ManualUsageAnalysis ==
  [t |-> "object", trend |-> Str("stable"), percentageChange |-> Num(0),
   avg_data_usage_gb |-> Num(15200), avg_talk_minutes |-> Num(D(110)),
   avg_text_messages |-> Num(D(75))]

Saving(description, estimatedSaving) ==
  [description |-> description, estimatedSaving |-> estimatedSaving]

\* the costAnalysis literal of enhanceBillData
DefaultCostAnalysis(totalAmount) ==
  [t |-> "object",
   averageMonthlyBill |-> OrElse(totalAmount, Num(0)),
   projectedNextBill |-> Times(OrElse(totalAmount, Num(0)), 105, 100),
   unusualCharges |-> Arr(<<>>),
   potentialSavings |-> Arr(<<Saving("Switch to autopay discount", Num(D(50))),
                              Saving("Consolidate streaming services", Num(D(25)))>>)]

\* the costAnalysis literal of addManualLineCharges
ManualCostAnalysis(totalAmount) ==
  [t |-> "object",
   averageMonthlyBill |-> totalAmount,
   projectedNextBill |-> Times(totalAmount, 105, 100),
   unusualCharges |-> Arr(<<>>),
   potentialSavings |-> Arr(<<Saving("Switch to autopay discount", Num(D(10))),
                              Saving("Consolidate streaming services", Num(D(15)))>>)]

AlternativePlan(monthlyCost, estimatedSavings) ==
  [name |-> "Unlimited Welcome", monthlyCost |-> monthlyCost,
   pros |-> <<"Lower cost", "Unlimited data">>,
   cons |-> <<"Fewer premium features", "Lower priority data">>,
   estimatedSavings |-> estimatedSavings]

PlanReasons ==
  <<"Better value for multiple lines", "Includes premium streaming perks",
    "Higher mobile hotspot data allowance">>

\* the planRecommendation literal of enhanceBillData
DefaultPlanRecommendation(totalAmount) ==
  [t |-> "object", recommendedPlan |-> "Unlimited Plus", reasons |-> PlanReasons,
   estimatedMonthlySavings |-> Num(96950), confidenceScore |-> Num(800),
   alternativePlans |-> Arr(<<AlternativePlan(Times(totalAmount, 9, 10), Num(64630))>>)]

\* the planRecommendation literal of addManualLineCharges
ManualPlanRecommendation(totalAmount) ==
  [t |-> "object", recommendedPlan |-> "Unlimited Plus", reasons |-> PlanReasons,
   estimatedMonthlySavings |-> Num(45950), confidenceScore |-> Num(700),
   alternativePlans |-> Arr(<<AlternativePlan(Times(totalAmount, 85, 100), Num(35500))>>)]

\* accountInfo
AccountInfo(customerName, accountNumber, billingPeriod) ==
  [t |-> "object", customerName |-> customerName,
   accountNumber |-> accountNumber, billingPeriod |-> billingPeriod]

\* a bill record, raw or enhanced, with every property absent
EmptyRecord ==
  [t |-> "object",
   accountNumber |-> Undefined, billingPeriod |-> Undefined,
   billVersion |-> Undefined, totalAmount |-> Undefined,
   accountInfo |-> Undefined, phoneLines |-> Undefined,
   chargesByCategory |-> Undefined, usageAnalysis |-> Undefined,
   costAnalysis |-> Undefined, planRecommendation |-> Undefined,
   ocrProvider |-> Undefined, upcomingChanges |-> Undefined,
   customerName |-> Undefined, networkPreference |-> Undefined]

---------------------------------------------------------------------------
(* enhanceBillData, src/unnamed/part_001 lines 94-277 *)

\* the cap of phoneLines.slice(0, 8)
MaxPhoneLines == 8

\* the billVersion strings that contain "claude-parser"
ClaudeParserVersions == {"claude-parser-v1.0"}

\* s.includes("claude-parser") on a string s
IncludesClaudeParser(s) == s \in ClaudeParserVersions

\* rawData.billVersion?.includes(...) raises a TypeError when billVersion is
\* neither null/undefined nor a value with an includes method
MarkerTestThrows(rawData) ==
  rawData.billVersion.t \notin {"undefined", "null", "string"}

\* the condition of line 95
IsEnhancedFormat(rawData) ==
  /\ rawData.billVersion.t = "string"
  /\ IncludesClaudeParser(rawData.billVersion.v)
  /\ rawData.phoneLines.t = "array"
  /\ Len(rawData.phoneLines.v) > 0

ZeroCharges == DisplayCharges(Num(0), Num(0), Num(0), Num(0))

\* the map from the legacy keys, lines 147-152 and 239-244
LegacyCharges(c) ==
  DisplayCharges(OrElse(c.plans, Num(0)), OrElse(c.devices, Num(0)),
                 OrElse(c.services, Num(0)), OrElse(c.taxes, Num(0)))

\* CapPhoneLines without the cap
CapPhoneLinesNever(phoneLines) == phoneLines

\* CapPhoneLines keeping the last lines instead of the first
CapPhoneLinesLast(phoneLines) ==
  IF Len(phoneLines.v) > MaxPhoneLines
    THEN Arr(SubSeq(phoneLines.v, Len(phoneLines.v) - MaxPhoneLines + 1,
                    Len(phoneLines.v)))
    ELSE phoneLines

\* lines 155-157 and 272-274
CapPhoneLines(phoneLines) ==
  IF Len(phoneLines.v) > MaxPhoneLines
    THEN Arr(SubSeq(phoneLines.v, 1, MaxPhoneLines))
    ELSE phoneLines

\* lines 139-153
EnhancedCharges(rawData) ==
  LET c == rawData.chargesByCategory IN
  IF ~Truthy(c) \/ c.t \notin {"object", "array", "null"} THEN ZeroCharges
  ELSE IF Truthy(rawData.chargesByCategory) THEN LegacyCharges(c)
  ELSE c

\* EnhancedPath replacing the three sub-objects as the minimal path does
EnhancedPathReplacing(rawData) ==
  [rawData EXCEPT
     !.totalAmount = OrElse(@, Num(0)),
     !.usageAnalysis = DefaultUsageAnalysis,
     !.costAnalysis = DefaultCostAnalysis(rawData.totalAmount),
     !.planRecommendation = DefaultPlanRecommendation(rawData.totalAmount),
     !.ocrProvider = OrElse(@, Str("claude")),
     !.chargesByCategory = EnhancedCharges(rawData),
     !.phoneLines = CapPhoneLines(@)]

\* lines 98-159: the record returned on the enhanced path
EnhancedPath(rawData) ==
  [rawData EXCEPT
     !.totalAmount = OrElse(@, Num(0)),
     !.usageAnalysis = OrElse(@, DefaultUsageAnalysis),
     !.costAnalysis = OrElse(@, DefaultCostAnalysis(rawData.totalAmount)),
     !.planRecommendation = OrElse(@, DefaultPlanRecommendation(rawData.totalAmount)),
     !.ocrProvider = OrElse(@, Str("claude")),
     !.chargesByCategory = EnhancedCharges(rawData),
     !.phoneLines = CapPhoneLines(@)]

\* the condition of line 162
NoPhoneLines(rawData) ==
  \/ ~Truthy(rawData.phoneLines)
  \/ (rawData.phoneLines.t = "array" /\ Len(rawData.phoneLines.v) = 0)

\* lines 164-177: the line written into rawData.phoneLines
PlaceholderLine(rawData) ==
  LET base == OrElse(rawData.totalAmount, Num(99990)) IN
  Line(Str("Primary Line"), Str("Smartphone"),
       OrElse(CustomerNameOf(rawData.accountInfo), Str("Primary Owner")),
       Str("Verizon Plan"), base,
       Details(Times(base, 7, 10), Num(0), Times(base, 2, 10), Num(0),
               Times(base, 1, 10), Undefined))

\* WithPlaceholder with the block of lines 162-178 left out
WithPlaceholderSkipped(rawData) == rawData

\* lines 162-178: rawData as enhanceBillData leaves it (assigned in place)
WithPlaceholder(rawData) ==
  IF NoPhoneLines(rawData)
    THEN [rawData EXCEPT !.phoneLines = Arr(<<PlaceholderLine(rawData)>>)]
    ELSE rawData

\* lines 180-218
Synthesized(rawData, ocr) ==
  [rawData EXCEPT
     !.usageAnalysis = DefaultUsageAnalysis,
     !.costAnalysis = DefaultCostAnalysis(rawData.totalAmount),
     !.planRecommendation = DefaultPlanRecommendation(rawData.totalAmount),
     !.ocrProvider = OrElse(@, OrElse(ocr, Str("standard")))]

\* the condition of line 220
HasCustomerAndLines(rawData) ==
  Truthy(CustomerNameOf(rawData.accountInfo)) /\ Truthy(rawData.phoneLines)

\* phoneLines.map raises a TypeError on a value that is not an array
OwnerMapThrows(rawData) ==
  HasCustomerAndLines(rawData) /\ rawData.phoneLines.t # "array"

\* lines 223-231
FillOwner(lines, customerName) ==
  [i \in 1..Len(lines) |->
     IF ~Truthy(lines[i].ownerName) /\ i = 1 /\ Truthy(customerName)
       THEN [lines[i] EXCEPT !.ownerName = customerName]
       ELSE lines[i]]

\* lines 220-232
WithCustomer(e, rawData) ==
  IF HasCustomerAndLines(rawData)
    THEN [e EXCEPT !.customerName = CustomerNameOf(rawData.accountInfo),
                   !.phoneLines = Arr(FillOwner(@.v, CustomerNameOf(rawData.accountInfo)))]
    ELSE e

\* lines 234-236
WithUpcomingChanges(e, rawData) ==
  IF Truthy(rawData.upcomingChanges) /\ rawData.upcomingChanges.t = "array"
     /\ Len(rawData.upcomingChanges.v) > 0
    THEN [e EXCEPT !.upcomingChanges = rawData.upcomingChanges]
    ELSE e

\* lines 238-245
WithCharges(e, rawData) ==
  IF Truthy(rawData.chargesByCategory)
    THEN [e EXCEPT !.chargesByCategory = LegacyCharges(rawData.chargesByCategory)]
    ELSE e

\* lines 248-269
CannedLines ==
  Arr(<<Line(Str("555-123-4567"), Str("iPhone 15"), Undefined, Str("Unlimited Plus"),
             Num(D(85)),
             Details(Num(D(90)), Num(D(10)), Undefined, Undefined, Undefined, Undefined)),
        Line(Str("555-987-6543"), Str("iPhone 14"), Undefined, Str("Unlimited Plus"),
             Num(D(75)),
             Details(Num(D(80)), Num(D(10)), Undefined, Undefined, Undefined, Undefined))>>)

\* lines 247-270
WithCannedLines(e) ==
  IF \/ ~Truthy(e.phoneLines)
     \/ e.phoneLines.t # "array"
     \/ Len(e.phoneLines.v) = 0
    THEN [e EXCEPT !.phoneLines = CannedLines]
    ELSE e

\* lines 162-276: the record returned on the minimal path
MinimalPath(rawData, ocr) ==
  LET raw1 == WithPlaceholder(rawData)
      e1 == Synthesized(raw1, ocr)
      e2 == WithCustomer(e1, raw1)
      e3 == WithUpcomingChanges(e2, raw1)
      e4 == WithCharges(e3, raw1)
      e5 == WithCannedLines(e4)
  IN [e5 EXCEPT !.phoneLines = CapPhoneLines(@)]

Returned(value) == [threw |-> FALSE, value |-> value]
\* a call that raised an Error with this message
Thrown(message) == [threw |-> TRUE, value |-> Str(message)]

\* enhanceBillData(rawData), with ocr the ocrProvider state its closure holds:
\* what the call returns, or that it threw
enhanceBillData(rawData, ocr) ==
  IF MarkerTestThrows(rawData)
    THEN Thrown("rawData.billVersion?.includes is not a function")
  ELSE IF IsEnhancedFormat(rawData) THEN Returned(EnhancedPath(rawData))
  ELSE IF OwnerMapThrows(WithPlaceholder(rawData))
    THEN Thrown("enhancedData.phoneLines.map is not a function")
  ELSE Returned(MinimalPath(rawData, ocr))

\* rawData after the call: line 164 assigns into the caller's object
rawDataAfterEnhance(rawData) ==
  IF MarkerTestThrows(rawData) \/ IsEnhancedFormat(rawData) THEN rawData
  ELSE WithPlaceholder(rawData)

---------------------------------------------------------------------------
(* calculateChargesByCategory, src/unnamed/part_001 lines 393-414 *)

\* PlanChargeOf forgetting the discount
PlanChargeOfNoDiscount(line) ==
  IF Truthy(line.details) THEN OrElse(line.details.planCost, Num(0)) ELSE Num(0)

\* line 401: what one line adds to planCharges
PlanChargeOf(line) ==
  IF Truthy(line.details)
    THEN Minus(OrElse(line.details.planCost, Num(0)),
               OrElse(line.details.planDiscount, Num(0)))
    ELSE Num(0)

\* line 403: what one line adds to devicePayments
DevicePaymentOf(line) ==
  IF Truthy(line.details)
    THEN Minus(OrElse(line.details.devicePayment, Num(0)),
               OrElse(line.details.deviceCredit, Num(0)))
    ELSE Num(0)

\* line 404: what one line adds to services
ServiceOf(line) ==
  IF Truthy(line.details) THEN OrElse(line.details.protection, Num(0)) ELSE Num(0)

\* the forEach accumulation of lines 398-406, for one of the three totals
RECURSIVE Accumulate(_, _, _)
Accumulate(lines, i, which) ==
  IF i = 0 THEN Num(0)
  ELSE Plus(Accumulate(lines, i - 1, which),
            CASE which = "plans" -> PlanChargeOf(lines[i])
              [] which = "devices" -> DevicePaymentOf(lines[i])
              [] OTHER -> ServiceOf(lines[i]))

\* line 412
TaxesAndFees(planCharges, devicePayments, services) ==
  Times(Plus(Plus(planCharges, devicePayments), services), 8, 100)

\* calculateChargesByCategory(phoneLines): phoneLines.forEach raises a
\* TypeError when phoneLines is not an array
calculateChargesByCategory(phoneLines) ==
  IF phoneLines.t # "array" THEN Thrown("phoneLines.forEach is not a function")
  ELSE LET n == Len(phoneLines.v)
           planCharges == Accumulate(phoneLines.v, n, "plans")
           devicePayments == Accumulate(phoneLines.v, n, "devices")
           services == Accumulate(phoneLines.v, n, "services")
       IN Returned(DisplayCharges(planCharges, devicePayments, services,
                                  TaxesAndFees(planCharges, devicePayments, services)))

---------------------------------------------------------------------------
(* calculateCarrierSavings, src/unnamed/part_001 lines 416-459 *)

basePricePerLine == 44

Quote(monthlySavings, annualSavings, planName, price) ==
  [monthlySavings |-> monthlySavings, annualSavings |-> annualSavings,
   planName |-> planName, price |-> price]

\* lines 428-432
premiumPlans ==
  [carrierId \in {"darkstar", "warp", "lightspeed"} |->
     CASE carrierId = "darkstar" -> "darkstar-premium"
       [] carrierId = "warp" -> "warp-premium"
       [] OTHER -> "lightspeed-premium"]

\* numberOfLines without the || 1 of line 426
numberOfLinesNoFallback(bd) ==
  IF bd.phoneLines.t = "array" THEN Len(bd.phoneLines.v) ELSE 0

\* line 426
numberOfLines(bd) == OrElse(LengthOf(bd.phoneLines), Num(1)).v

\* line 448
finalPrice(bd) == Num(D(basePricePerLine) * numberOfLines(bd))

\* PlanQuote pricing each line at the plan's own listed price
PlanQuoteListedPrice(bd, carrierPlan) ==
  LET price == Num(carrierPlan.price.v * numberOfLines(bd))
      monthlySavings == Minus(bd.totalAmount, price)
  IN Quote(monthlySavings, Times(monthlySavings, 12, 1), carrierPlan.name, price)

\* lines 447-458: the quote for a plan found in the catalog
PlanQuote(bd, carrierPlan) ==
  LET monthlySavings == Minus(bd.totalAmount, finalPrice(bd)) IN
  Quote(monthlySavings, Times(monthlySavings, 12, 1), carrierPlan.name, finalPrice(bd))

NoAnalysisQuote == Quote(Num(0), Num(0), "N/A", Num(0))
NoMatchingPlanQuote == Quote(Num(0), Num(0), "No matching plan", Num(0))

\* line 434: the plan id, match being what findBestCarrierMatch(carrierId) returns
matchingPlanId(carrierId, match) ==
  IF carrierId \in DOMAIN premiumPlans THEN premiumPlans[carrierId] ELSE match

\* calculateCarrierSavings resolving and searching before it tests billData
calculateCarrierSavingsLookupFirst(carrierId, bd, match, catalog) ==
  LET id == matchingPlanId(carrierId, match)
      found == {i \in 1..Len(catalog) : catalog[i].id = id}
      first == CHOOSE i \in found : \A j \in found : i <= j
  IN [quote |-> IF ~Truthy(bd) THEN NoAnalysisQuote
                ELSE IF found = {} THEN NoMatchingPlanQuote
                ELSE PlanQuote(bd, catalog[first]),
      resolved |-> carrierId \notin DOMAIN premiumPlans,
      searched |-> TRUE]

\* calculateCarrierSavings quoting the first plan of the catalog when the
\* resolved id is not in it
calculateCarrierSavingsFallback(carrierId, bd, match, catalog) ==
  IF ~Truthy(bd)
    THEN [quote |-> NoAnalysisQuote, resolved |-> FALSE, searched |-> FALSE]
  ELSE LET id == matchingPlanId(carrierId, match)
           found == {i \in 1..Len(catalog) : catalog[i].id = id}
           first == IF found = {} THEN 1
                    ELSE CHOOSE i \in found : \A j \in found : i <= j
       IN [quote |-> PlanQuote(bd, catalog[first]),
           resolved |-> carrierId \notin DOMAIN premiumPlans,
           searched |-> TRUE]

\* calculateCarrierSavings(carrierId) in a render where billData is bd,
\* alternativeCarrierPlans is catalog and the resolver would return match:
\* the quote, and whether the resolver and the catalog were consulted
calculateCarrierSavings(carrierId, bd, match, catalog) ==
  IF ~Truthy(bd)
    THEN [quote |-> NoAnalysisQuote, resolved |-> FALSE, searched |-> FALSE]
  ELSE LET id == matchingPlanId(carrierId, match)
           found == {i \in 1..Len(catalog) : catalog[i].id = id}
           first == CHOOSE i \in found : \A j \in found : i <= j
       IN [quote |-> IF found = {} THEN NoMatchingPlanQuote
                     ELSE PlanQuote(bd, catalog[first]),
           resolved |-> carrierId \notin DOMAIN premiumPlans,
           searched |-> TRUE]

---------------------------------------------------------------------------
(* Inputs *)

\* the longest phoneLines array tried
MaxLines == 10
\* the longest phoneLines array tried with every choice of line at each place
MaxShort == 2

PhoneNumbers ==
  <<"555-0101", "555-0102", "555-0103", "555-0104", "555-0105", "555-0106",
    "555-0107", "555-0108", "555-0109", "555-0110", "555-0111", "555-0112">>

\* a line with every detail, one with absent details and no owner, one with no details
LineA ==
  Line(Str("555-0001"), Str("Pixel 8"), Str("Ann"), Str("Unlimited"), Num(D(60)),
       Details(Num(D(50)), Num(D(10)), Num(D(20)), Num(D(5)), Num(D(7)), Num(D(3))))
LineB ==
  Line(Str("555-0002"), Str("Galaxy S24"), Undefined, Str("Welcome"), Num(D(40)),
       Details(Num(D(40)), Undefined, Undefined, Num(D(15)), Undefined, Num(D(9))))
LineC ==
  Line(Str("555-0003"), Str("Flip"), Undefined, Str("Basic"), Num(D(30)), Undefined)

SampleLines == {LineA, LineB, LineC}

\* the i-th line of a long array: no two alike
NumberedLine(i) ==
  Line(Str(PhoneNumbers[i]), Str("iPhone 13"), Undefined, Str("Unlimited"),
       Num(D(30 + i)),
       Details(Num(D(30 + i)), Num(D(i)), Num(D(i)), Undefined, Num(D(1)), Undefined))

ShortArrays ==
  {Arr(s) : s \in UNION {[1..n -> SampleLines] : n \in 0..MaxShort}}
LongArrays ==
  {Arr([i \in 1..n |-> NumberedLine(i)]) : n \in (MaxShort + 1)..MaxLines}
LineArrays == ShortArrays \cup LongArrays

BillVersions == {Undefined, Str("claude-parser-v1.0"), Str("v2"), Num(2)}
PhoneLinesValues == {Undefined, PlainObject} \cup LineArrays
FewPhoneLinesValues ==
  {Undefined, PlainObject, Arr(<<LineB>>), Arr([i \in 1..MaxLines |-> NumberedLine(i)])}
AccountInfos == {Undefined, AccountInfo(Str("Pat"), Str("A-1"), Str("Oct 2026"))}
TotalAmounts == {Undefined, Num(0), Num(D(200))}
LegacyInput ==
  Charges(Num(D(90)), Num(D(35)), Undefined, Num(D(12)),
          Undefined, Undefined, Undefined, Undefined)
ChargesValues ==
  {Undefined, LegacyInput, DisplayCharges(Num(D(90)), Num(D(35)), Num(0), Num(D(12)))}

GivenUsageAnalysis ==
  [t |-> "object", trend |-> Str("spiking"), percentageChange |-> Num(D(12)),
   avg_data_usage_gb |-> Num(D(8)), avg_talk_minutes |-> Num(D(30)),
   avg_text_messages |-> Num(D(10))]
GivenCostAnalysis ==
  [t |-> "object", averageMonthlyBill |-> Num(D(180)),
   projectedNextBill |-> Num(D(190)), unusualCharges |-> Arr(<<>>),
   potentialSavings |-> Arr(<<>>)]
GivenPlanRecommendation ==
  [t |-> "object", recommendedPlan |-> "Unlimited Ultimate", reasons |-> <<>>,
   estimatedMonthlySavings |-> Num(D(5)), confidenceScore |-> Num(1500),
   alternativePlans |-> Arr(<<>>)]
SubObjects == {"usageAnalysis", "costAnalysis", "planRecommendation"}

\* a raw record: given says which of the three sub-objects it carries, extras
\* whether it carries accountNumber, billingPeriod and upcomingChanges
Raw(billVersion, phoneLines, accountInfo, totalAmount, charges, given, ocr, extras) ==
  [EmptyRecord EXCEPT
     !.billVersion = billVersion, !.phoneLines = phoneLines,
     !.accountInfo = accountInfo, !.totalAmount = totalAmount,
     !.chargesByCategory = charges,
     !.usageAnalysis = IF "usageAnalysis" \in given THEN GivenUsageAnalysis ELSE Undefined,
     !.costAnalysis = IF "costAnalysis" \in given THEN GivenCostAnalysis ELSE Undefined,
     !.planRecommendation =
        IF "planRecommendation" \in given THEN GivenPlanRecommendation ELSE Undefined,
     !.ocrProvider = ocr,
     !.accountNumber = IF extras THEN Str("A-1") ELSE Undefined,
     !.billingPeriod = IF extras THEN Str("Oct 2026") ELSE Undefined,
     !.upcomingChanges = IF extras THEN Arr(<<"price increase">>) ELSE Undefined]

\* every shape of phoneLines, with the other properties at their plainest
ShapeRecords ==
  {Raw(bv, pl, ai, ta, cc, {}, Undefined, FALSE) :
     bv \in BillVersions, pl \in PhoneLinesValues, ai \in AccountInfos,
     ta \in TotalAmounts, cc \in ChargesValues}

\* every combination of the optional properties, over a few shapes of phoneLines
OptionRecords ==
  {Raw(bv, pl, ai, ta, cc, given, ocr, extras) :
     bv \in BillVersions, pl \in FewPhoneLinesValues, ai \in AccountInfos,
     ta \in TotalAmounts, cc \in ChargesValues, given \in SUBSET SubObjects,
     ocr \in {Undefined, Str("tesseract")}, extras \in BOOLEAN}

RawRecords == ShapeRecords \cup OptionRecords

\* the ocrProvider state a call of enhanceBillData may find: null, or what
\* line 65 stored from an earlier response, a string or not
OcrStates == {Null, Str("claude"), PlainObject}

---------------------------------------------------------------------------
(* The state after construction: lines 10-14 of the hook, 22-24 of the      *)
(* component.                                                              *)

NoCall == [fn |-> "none"]

InitHook ==
  /\ billData = Null
  /\ fileSelected = FALSE
  /\ isLoading = FALSE
  /\ errorMessage = Null
  /\ ocrProvider = Null

InitComponent ==
  /\ inputMethod = "none"
  /\ networkPreference = Null
  /\ showNetworkError = FALSE

---------------------------------------------------------------------------
(* The hook and the component: the state machine of the useState cells and  *)
(* the asynchronous operations.                                            *)

\* the most operations in flight at once
MaxOps == 2
\* the readings of the clock tried
MaxClock == 1

Carriers == {"verizon", "tmobile", "att"}

\* new Date().toLocaleDateString() and Date.now().toString().substring(0, 6)
LocaleDates == <<"11/5/2026", "11/6/2026", "11/7/2026">>
Stamps == <<"Manual-179431", "Manual-179440", "Manual-179448">>

\* an operation in flight: an upload awaiting the extraction call, or an
\* upload or manual entry awaiting the persistence call; ocr is, for an
\* upload awaiting the extraction call, the ocrProvider state its closure
\* holds until enhanceBillData reads it, and for an upload awaiting the
\* persistence call, the ocrProvider of its enhancedData when line 307 will
\* fail on it (Null when it is a string, all strings leaving the same state)
Op(kind, pc, ocr) == [kind |-> kind, pc |-> pc, ocr |-> ocr]

Started(op) == ops (+) SetToBag({op})
Ended(op) == ops (-) SetToBag({op})

\* the files an input element may hand to handleFileChange
Files == {"none", "pdf", "notPdf"}

\* what the extraction service may answer with a record
ResponseRecords ==
  { [EmptyRecord EXCEPT !.phoneLines = Arr(<<>>), !.ocrProvider = PlainObject],
    Raw(Str("claude-parser-v1.0"), Arr([i \in 1..MaxLines |-> NumberedLine(i)]),
        Undefined, Num(D(200)), Undefined, {}, Undefined, TRUE),
    Raw(Str("v2"), Arr(<<LineB, LineA, LineC>>), AccountInfo(Str("Pat"), Str("A-1"), Str("Oct 2026")),
        Num(D(200)), LegacyInput, {}, Undefined, FALSE),
    Raw(Num(2), Arr(<<LineA>>), Undefined, Num(D(200)), Undefined, {}, Undefined, FALSE),
    Raw(Undefined, PlainObject, Undefined, Num(D(200)), Undefined, {}, Undefined, FALSE) }

\* how the extraction call may settle
Responses ==
  {[kind |-> "networkError"],
   [kind |-> "notOk", error |-> Undefined],
   [kind |-> "notOk", error |-> Str("Bill could not be read")],
   [kind |-> "ok", data |-> Null]}
  \cup {[kind |-> "ok", data |-> d] : d \in ResponseRecords}

\* processVerizonBill, lines 23-75, once the request has settled with
\* response: the data it returns, or the error it rethrows
processVerizonBill(response) ==
  CASE response.kind = "networkError" -> Thrown("Failed to fetch")
    [] response.kind = "notOk" ->
         IF Truthy(response.error) THEN Thrown(response.error.v)
         ELSE Thrown("Failed to analyze bill: 500")
    [] OTHER ->
         IF ~Truthy(response.data) \/ response.data.phoneLines.t # "array"
           THEN Thrown("The bill analysis response format is invalid")
           ELSE Returned(response.data)

\* what the manual entry form may submit
ManualInputs ==
  {[phoneLines |-> pl, totalAmount |-> Num(D(100))] :
     pl \in {Arr(<<>>), Arr(<<LineA>>), Arr(<<LineB, LineC>>),
             Arr([i \in 1..MaxLines |-> NumberedLine(i)]), Undefined}}

\* lines 329-376: the record addManualLineCharges builds
ManualAnalysis(manualData, chargesByCategory, now) ==
  [EmptyRecord EXCEPT
     !.phoneLines = manualData.phoneLines,
     !.totalAmount = manualData.totalAmount,
     !.accountNumber = Str("Manual Entry"),
     !.billingPeriod = Str(LocaleDates[now]),
     !.billVersion = Str("Manual Entry v1.0"),
     !.usageAnalysis = ManualUsageAnalysis,
     !.costAnalysis = ManualCostAnalysis(manualData.totalAmount),
     !.planRecommendation = ManualPlanRecommendation(manualData.totalAmount),
     !.chargesByCategory = chargesByCategory,
     !.networkPreference = OrElse(manualData.networkPreference, Null),
     !.accountInfo = AccountInfo(Str("Manual Entry User"), Str(Stamps[now]),
                                 Str(LocaleDates[now]))]

\* handleFileChange, lines 279-291: up to the await of the extraction call
handleFileChange(file) ==
  /\ \/ /\ file = "none"
        /\ UNCHANGED <<hookVars, ops>>
     \/ /\ file = "notPdf"
        /\ errorMessage' = Str("Please upload a PDF file for best results")
        /\ UNCHANGED <<billData, fileSelected, isLoading, ocrProvider, ops>>
     \/ /\ file = "pdf"
        /\ BagCardinality(ops) < MaxOps
        /\ fileSelected' = TRUE
        /\ isLoading' = TRUE
        /\ errorMessage' = Null
        /\ ops' = Started(Op("upload", "fetching", ocrProvider))
        /\ UNCHANGED <<billData, ocrProvider>>
  /\ call' = NoCall
  /\ UNCHANGED componentVars

\* line 307: enhancedData.ocrProvider?.includes("claude") raises a TypeError
\* when ocrProvider is neither null/undefined nor a value with an includes
\* method
IncludesThrows(x) == x.t \notin {"undefined", "null", "string", "array"}
OcrMethodThrows(op) == op.kind = "upload" /\ IncludesThrows(op.ocr)

\* ExtractionSettles clearing the analysis when the extraction call fails
ExtractionSettlesClearing(op, response) ==
  LET analysisResult == processVerizonBill(response)
      enhanced == enhanceBillData(analysisResult.value, op.ocr)
  IN
  /\ op.kind = "upload"
  /\ op.pc = "fetching"
  /\ IF analysisResult.threw
       THEN /\ errorMessage' = analysisResult.value
            /\ isLoading' = FALSE
            /\ ops' = Ended(op)
            /\ billData' = Null
            /\ UNCHANGED ocrProvider
       ELSE /\ ocrProvider' = IF Truthy(analysisResult.value.ocrProvider)
                                THEN analysisResult.value.ocrProvider
                                ELSE ocrProvider
            /\ IF enhanced.threw
                 THEN /\ errorMessage' = enhanced.value
                      /\ isLoading' = FALSE
                      /\ ops' = Ended(op)
                      /\ UNCHANGED billData
                 ELSE /\ billData' = enhanced.value
                      /\ ops' = Ended(op) (+) SetToBag({Op("upload", "saving",
                                   IF IncludesThrows(enhanced.value.ocrProvider)
                                     THEN enhanced.value.ocrProvider ELSE Null)})
                      /\ UNCHANGED <<errorMessage, isLoading>>
  /\ call' = NoCall
  /\ UNCHANGED <<fileSelected, componentVars>>

\* handleFileChange, lines 295-320, from the moment the extraction call of
\* operation op settles to the await of the persistence call or the end
ExtractionSettles(op, response) ==
  LET analysisResult == processVerizonBill(response)
      enhanced == enhanceBillData(analysisResult.value, op.ocr)
  IN
  /\ op.kind = "upload"
  /\ op.pc = "fetching"
  /\ IF analysisResult.threw
       THEN /\ errorMessage' = analysisResult.value
            /\ isLoading' = FALSE
            /\ ops' = Ended(op)
            /\ UNCHANGED <<billData, ocrProvider>>
       ELSE /\ ocrProvider' = IF Truthy(analysisResult.value.ocrProvider)
                                THEN analysisResult.value.ocrProvider
                                ELSE ocrProvider
            /\ IF enhanced.threw
                 THEN /\ errorMessage' = enhanced.value
                      /\ isLoading' = FALSE
                      /\ ops' = Ended(op)
                      /\ UNCHANGED billData
                 ELSE /\ billData' = enhanced.value
                      /\ ops' = Ended(op) (+) SetToBag({Op("upload", "saving",
                                   IF IncludesThrows(enhanced.value.ocrProvider)
                                     THEN enhanced.value.ocrProvider ELSE Null)})
                      /\ UNCHANGED <<errorMessage, isLoading>>
  /\ call' = NoCall
  /\ UNCHANGED <<fileSelected, componentVars>>

\* SaveSettles with the error of the persistence call left uncaught
SaveSettlesReporting(op, saved) ==
  /\ op.pc = "saving"
  /\ errorMessage' = IF ~saved THEN Str("Error saving bill analysis")
                       ELSE IF OcrMethodThrows(op)
                       THEN Str("enhancedData.ocrProvider?.includes is not a function")
                       ELSE errorMessage
  /\ isLoading' = FALSE
  /\ ops' = Ended(op)
  /\ call' = [fn |-> "saveBillAnalysis", saved |-> saved]
  /\ UNCHANGED <<billData, fileSelected, ocrProvider, componentVars>>

\* SaveSettles with the finally block of lines 317-319 and 388-390 left out
SaveSettlesStillLoading(op, saved) ==
  /\ op.pc = "saving"
  /\ errorMessage' = IF OcrMethodThrows(op)
                       THEN Str("enhancedData.ocrProvider?.includes is not a function")
                       ELSE errorMessage
  /\ ops' = Ended(op)
  /\ call' = [fn |-> "saveBillAnalysis", saved |-> saved]
  /\ UNCHANGED <<billData, fileSelected, isLoading, ocrProvider, componentVars>>

\* saveBillAnalysis, lines 77-92, settles for operation op (saved or not, the
\* error is caught and logged), and the operation runs to its end: lines
\* 307-319 or 382-390
SaveSettles(op, saved) ==
  /\ op.pc = "saving"
  /\ errorMessage' = IF OcrMethodThrows(op)
                       THEN Str("enhancedData.ocrProvider?.includes is not a function")
                       ELSE errorMessage
  /\ isLoading' = FALSE
  /\ ops' = Ended(op)
  /\ call' = [fn |-> "saveBillAnalysis", saved |-> saved]
  /\ UNCHANGED <<billData, fileSelected, ocrProvider, componentVars>>

\* addManualLineCharges, lines 322-391, up to the await of the persistence
\* call; a throw of calculateChargesByCategory runs catch and finally at once
addManualLineCharges(manualData, now) ==
  LET chargesByCategory == calculateChargesByCategory(manualData.phoneLines) IN
  /\ BagCardinality(ops) < MaxOps
  /\ IF chargesByCategory.threw
       THEN /\ errorMessage' = chargesByCategory.value
            /\ isLoading' = FALSE
            /\ UNCHANGED <<billData, ops>>
       ELSE /\ errorMessage' = Null
            /\ isLoading' = TRUE
            /\ billData' = ManualAnalysis(manualData, chargesByCategory.value, now)
            /\ ops' = Started(Op("manual", "saving", Null))
  /\ UNCHANGED <<fileSelected, ocrProvider>>

\* resetBillData leaving the stored ocrProvider and the error message
resetBillDataKeepingMessage ==
  /\ billData' = Null
  /\ fileSelected' = FALSE
  /\ UNCHANGED <<errorMessage, ocrProvider, isLoading, ops>>

\* resetBillData, lines 16-21
resetBillData ==
  /\ billData' = Null
  /\ fileSelected' = FALSE
  /\ errorMessage' = Null
  /\ ocrProvider' = Null
  /\ UNCHANGED <<isLoading, ops>>

\* a caller of the hook resets it
Reset ==
  /\ resetBillData
  /\ call' = NoCall
  /\ UNCHANGED componentVars

\* handleStartOver, component lines 26-32 (the button is rendered with billData)
handleStartOver ==
  /\ Truthy(billData)
  /\ resetBillData
  /\ inputMethod' = "none"
  /\ networkPreference' = Null
  /\ showNetworkError' = FALSE
  /\ call' = NoCall

\* setInputMethod, component lines 105 and 146 (rendered without billData)
setInputMethod(method) ==
  /\ ~Truthy(billData)
  /\ inputMethod # method
  /\ inputMethod' = method
  /\ call' = NoCall
  /\ UNCHANGED <<hookVars, ops, networkPreference, showNetworkError>>

\* handleNetworkPreferenceChange, component lines 34-37
handleNetworkPreferenceChange(value) ==
  /\ ~Truthy(billData)
  /\ inputMethod = "manual"
  /\ networkPreference' = Str(value)
  /\ showNetworkError' = FALSE
  /\ call' = NoCall
  /\ UNCHANGED <<hookVars, ops, inputMethod>>

\* handleSubmitForm without the test of networkPreference
handleSubmitFormUnchecked(data, now) ==
  /\ ~Truthy(billData)
  /\ inputMethod = "manual"
  /\ addManualLineCharges(
       [phoneLines |-> data.phoneLines, totalAmount |-> data.totalAmount,
        networkPreference |-> networkPreference], now)
  /\ showNetworkError' = ~Truthy(networkPreference)
  /\ call' = NoCall
  /\ UNCHANGED <<inputMethod, networkPreference>>

\* handleSubmitForm, component lines 39-47
handleSubmitForm(data, now) ==
  /\ ~Truthy(billData)
  /\ inputMethod = "manual"
  /\ IF ~Truthy(networkPreference)
       THEN /\ showNetworkError' = TRUE
            /\ UNCHANGED <<hookVars, ops>>
       ELSE /\ addManualLineCharges(
                 [phoneLines |-> data.phoneLines, totalAmount |-> data.totalAmount,
                  networkPreference |-> networkPreference], now)
            /\ UNCHANGED showNetworkError
  /\ call' = NoCall
  /\ UNCHANGED <<inputMethod, networkPreference>>

\* the carrier ids a caller may ask a quote for
CarrierIds == {"warp", "verizon"}

\* alternativeCarrierPlans of @/config/alternativeCarriers: a static catalog
\* of plans, each with an id, a name and its own listed price
Plan(id, name, price) == [id |-> id, name |-> name, price |-> price]
alternativeCarrierPlans ==
  <<Plan("darkstar-premium", "Darkstar Premium", Num(D(50))),
    Plan("warp-premium", "Warp Premium", Num(D(45))),
    Plan("lightspeed-premium", "Lightspeed Premium", Num(D(40)))>>

\* findBestCarrierMatch of @/config/alternativeCarriers: the plan id the
\* resolver may return for a carrier id
findBestCarrierMatch(carrierId) == {"warp-premium", "no-such-plan"}

\* a caller asks for a quote: calculateCarrierSavings(carrierId) in the
\* current render; line 434 calls the resolver only with an analysis and for
\* a carrier id that premiumPlans does not list
CarrierSavings(carrierId) ==
  /\ \E match \in (IF Truthy(billData) /\ carrierId \notin DOMAIN premiumPlans
                     THEN findBestCarrierMatch(carrierId)
                     ELSE {"not called"}) :
       call' = [fn |-> "calculateCarrierSavings", carrierId |-> carrierId,
                billData |-> billData, match |-> match,
                result |-> calculateCarrierSavings(carrierId, billData, match,
                                                   alternativeCarrierPlans)]
  /\ UNCHANGED <<hookVars, componentVars, ops>>

Init ==
  /\ InitHook
  /\ InitComponent
  /\ ops = EmptyBag
  /\ call = NoCall

\* the extraction call of some upload settles
ExtractionSettled ==
  \E op \in BagToSet(ops), response \in Responses : ExtractionSettles(op, response)

\* the persistence call of some operation settles
SaveSettled ==
  \E op \in BagToSet(ops), saved \in BOOLEAN : SaveSettles(op, saved)

\* the steps of the hook and the component
NextHook ==
  \/ \E file \in Files : handleFileChange(file)
  \/ ExtractionSettled
  \/ SaveSettled
  \/ Reset
  \/ handleStartOver
  \/ \E method \in {"none", "manual"} : setInputMethod(method)
  \/ \E value \in Carriers : handleNetworkPreferenceChange(value)
  \/ \E data \in ManualInputs, now \in 1..MaxClock : handleSubmitForm(data, now)

SpecHook == Init /\ [][NextHook]_vars

\* every external call in flight settles in the end: fetch and the insert of
\* saveBillAnalysis return a promise that resolves or rejects
SpecSettling == SpecHook /\ WF_vars(ExtractionSettled) /\ WF_vars(SaveSettled)

Next ==
  \/ NextHook
  \/ \E carrierId \in CarrierIds : CarrierSavings(carrierId)

Spec == Init /\ [][Next]_vars

---------------------------------------------------------------------------
(* The functions on their own: a call is drawn with its arguments, then     *)
(* made.  For addManualLineCharges the call is the synchronous part, lines  *)
(* 329-376, that builds the record handed to setBillData.                   *)

EnhanceCalls ==
  {[fn |-> "enhanceBillData", done |-> FALSE, rawData |-> r, ocr |-> o] :
     r \in RawRecords, o \in OcrStates}

AggregateCalls ==
  {[fn |-> "calculateChargesByCategory", done |-> FALSE, phoneLines |-> pl] :
     pl \in LineArrays}

ManualCalls ==
  {[fn |-> "addManualLineCharges", done |-> FALSE,
    manualData |-> [phoneLines |-> md.phoneLines, totalAmount |-> md.totalAmount,
                    networkPreference |-> np],
    now |-> n] :
     md \in ManualInputs, np \in {Undefined} \cup {Str(c) : c \in Carriers},
     n \in 1..MaxClock}

InitFunctions ==
  /\ InitHook
  /\ InitComponent
  /\ ops = EmptyBag
  /\ call \in EnhanceCalls \cup AggregateCalls \cup ManualCalls

\* the call enhanceBillData(call.rawData) is made, and enhanceBillData is
\* called once more on the record it returned
Enhance ==
  /\ call.fn = "enhanceBillData"
  /\ ~call.done
  /\ LET result == enhanceBillData(call.rawData, call.ocr) IN
     call' = [fn |-> "enhanceBillData", done |-> TRUE,
              rawData |-> call.rawData, ocr |-> call.ocr,
              rawDataAfter |-> rawDataAfterEnhance(call.rawData),
              result |-> result,
              again |-> IF result.threw THEN result
                        ELSE enhanceBillData(result.value, call.ocr)]
  /\ UNCHANGED <<hookVars, componentVars, ops>>

\* the call calculateChargesByCategory(call.phoneLines) is made
Aggregate ==
  /\ call.fn = "calculateChargesByCategory"
  /\ ~call.done
  /\ call' = [fn |-> "calculateChargesByCategory", done |-> TRUE,
              phoneLines |-> call.phoneLines,
              result |-> calculateChargesByCategory(call.phoneLines)]
  /\ UNCHANGED <<hookVars, componentVars, ops>>

\* the record addManualLineCharges(call.manualData) builds at lines 329-376, or
\* the error its catch receives
BuildManual ==
  /\ call.fn = "addManualLineCharges"
  /\ ~call.done
  /\ LET chargesByCategory == calculateChargesByCategory(call.manualData.phoneLines) IN
     call' = [fn |-> "addManualLineCharges", done |-> TRUE,
              manualData |-> call.manualData, now |-> call.now,
              result |-> IF chargesByCategory.threw THEN chargesByCategory
                         ELSE Returned(ManualAnalysis(call.manualData,
                                                      chargesByCategory.value, call.now))]
  /\ UNCHANGED <<hookVars, componentVars, ops>>

NextFunctions == Enhance \/ Aggregate \/ BuildManual

SpecFunctions == InitFunctions /\ [][NextFunctions]_vars

---------------------------------------------------------------------------
(* Properties of enhanceBillData and calculateChargesByCategory, checked   *)
(* under SpecFunctions.                                                    *)

\* the call of enhanceBillData has been made and returned a record
EnhanceReturned ==
  call.fn = "enhanceBillData" /\ call.done /\ ~call.result.threw

Min(a, b) == IF a <= b THEN a ELSE b

\* a property that is neither absent, null nor NaN
Defined(x) == x.t \notin {"undefined", "null", "NaN"}

\* deviceName of each line of an array
DeviceNames(phoneLines) ==
  [i \in 1..Len(phoneLines.v) |-> phoneLines.v[i].deviceName.v]

\* C1: whatever the raw record (the empty record included), the record
\* enhanceBillData returns has a phoneLines array of at most 8 lines.
C1_PhoneLinesAtMostEight ==
  EnhanceReturned =>
    /\ call.result.value.phoneLines.t = "array"
    /\ Len(call.result.value.phoneLines.v) <= 8

\* C1 witness: a raw record of more than 8 lines without the enhanced marker
\* was normalized, and 8 lines came back.
C1_Witness ==
  /\ EnhanceReturned
  /\ ~IsEnhancedFormat(call.rawData)
  /\ call.rawData.phoneLines.t = "array"
  /\ Len(call.rawData.phoneLines.v) > 8
  /\ Len(call.result.value.phoneLines.v) = 8

\* C2 (the claim as stated): the record enhanceBillData returns leaves none
\* of accountNumber, billingPeriod, totalAmount, usageAnalysis, costAnalysis,
\* planRecommendation, phoneLines, chargesByCategory unset, and totalAmount
\* is a number.
C2_NoFieldUnset ==
  EnhanceReturned =>
    LET e == call.result.value IN
    /\ Defined(e.accountNumber)
    /\ Defined(e.billingPeriod)
    /\ e.totalAmount.t = "number"
    /\ Defined(e.usageAnalysis)
    /\ Defined(e.costAnalysis)
    /\ Defined(e.planRecommendation)
    /\ Defined(e.phoneLines)
    /\ Defined(e.chargesByCategory)

\* C3 (the claim as stated): for a raw record with an array of n phone lines
\* the returned phoneLines is exactly the first min(n, 8) of them.
C3_ExactlyFirstLines ==
  (EnhanceReturned /\ call.rawData.phoneLines.t = "array") =>
    LET in == call.rawData.phoneLines.v IN
    call.result.value.phoneLines = Arr(SubSeq(in, 1, Min(Len(in), 8)))

\* C3 (amended): for n >= 1 phone lines the returned phoneLines has
\* min(n, 8) lines and line i is input line i, except that without the
\* enhanced format, when accountInfo.customerName is set and the first line
\* has no ownerName, the first line comes back with ownerName set to it.
C3_FirstLinesInOrder ==
  (EnhanceReturned /\ call.rawData.phoneLines.t = "array"
     /\ Len(call.rawData.phoneLines.v) >= 1) =>
    LET in == call.rawData.phoneLines.v
        out == call.result.value.phoneLines.v
        name == CustomerNameOf(call.rawData.accountInfo)
        owned == /\ ~IsEnhancedFormat(call.rawData)
                 /\ Truthy(name)
                 /\ ~Truthy(in[1].ownerName)
    IN /\ Len(out) = Min(Len(in), 8)
       /\ \A i \in 1..Len(out) :
            IF i = 1 /\ owned
              THEN out[i] = [in[i] EXCEPT !.ownerName = name]
              ELSE out[i] = in[i]

\* C3 witness: 10 lines went in and the first 8 came back.
C3_Witness ==
  /\ EnhanceReturned
  /\ call.rawData.phoneLines.t = "array"
  /\ Len(call.rawData.phoneLines.v) = 10
  /\ call.result.value.phoneLines = Arr(SubSeq(call.rawData.phoneLines.v, 1, 8))

\* the raw record has no phone line and its billVersion has no marker
NoLinesNoMarker ==
  /\ call.fn = "enhanceBillData"
  /\ NoPhoneLines(call.rawData)
  /\ ~(call.rawData.billVersion.t = "string"
       /\ IncludesClaudeParser(call.rawData.billVersion.v))

\* C4 (the claim as stated): with no phone line and no enhanced marker the
\* returned record has exactly the two lines "iPhone 15", "iPhone 14".
C4_TwoCannedLines ==
  (EnhanceReturned /\ NoLinesNoMarker) =>
    DeviceNames(call.result.value.phoneLines) = <<"iPhone 15", "iPhone 14">>

\* C4 (amended): with no phone line (phoneLines absent or empty) and no
\* enhanced marker the returned record has exactly one placeholder line,
\* "Smartphone"; the two lines "iPhone 15", "iPhone 14" come back only for a
\* phoneLines that is a truthy value but not an array.
C4_OnePlaceholderLine ==
  /\ (EnhanceReturned /\ NoLinesNoMarker) =>
       DeviceNames(call.result.value.phoneLines) = <<"Smartphone">>
  /\ EnhanceReturned =>
       ((DeviceNames(call.result.value.phoneLines) = <<"iPhone 15", "iPhone 14">>)
          <=> (call.rawData.phoneLines = PlainObject))

\* C4 witness: a record with an empty phoneLines array and no marker was
\* normalized.
C4_Witness ==
  /\ EnhanceReturned
  /\ NoLinesNoMarker
  /\ call.rawData.phoneLines = Arr(<<>>)

\* C5 (the claim as stated): enhanceBillData never throws.
C5_NeverThrows ==
  (call.fn = "enhanceBillData" /\ call.done) => ~call.result.threw

\* the number in a detail field, an absent field counting as 0
DetailOrZero(line, field) ==
  IF line.details.t = "object" /\ line.details[field].t = "number"
    THEN line.details[field].v
    ELSE 0

\* the sum of one detail field over the lines of an array
SumOfDetail(lines, field) ==
  LET S[i \in 0..Len(lines)] ==
        IF i = 0 THEN 0 ELSE S[i - 1] + DetailOrZero(lines[i], field)
  IN S[Len(lines)]

\* the three totals of the per-line details
PlanSum(lines) == SumOfDetail(lines, "planCost") - SumOfDetail(lines, "planDiscount")
DeviceSum(lines) ==
  SumOfDetail(lines, "devicePayment") - SumOfDetail(lines, "deviceCredit")
ServiceSum(lines) == SumOfDetail(lines, "protection")

\* C6 (the claim as stated): in the record enhanceBillData returns, the
\* chargesByCategory totals are the sums of the details of its phoneLines.
C6_ChargesAreLineSums ==
  EnhanceReturned =>
    LET e == call.result.value IN
    /\ e.chargesByCategory.t = "object"
    /\ e.chargesByCategory.PlanCharges = Num(PlanSum(e.phoneLines.v))
    /\ e.chargesByCategory.DevicePayments = Num(DeviceSum(e.phoneLines.v))
    /\ e.chargesByCategory.ServicesAddOns = Num(ServiceSum(e.phoneLines.v))

\* C7: for every array of lines, the empty one included,
\* calculateChargesByCategory returns the three sums of the per-line details
\* (an absent detail counting as 0) and, as Taxes & Fees, 8% of their sum,
\* whatever the taxes and surcharges fields of the lines hold.
C7_CategorySums ==
  (call.fn = "calculateChargesByCategory" /\ call.done) =>
    LET lines == call.phoneLines.v
        c == call.result.value
    IN /\ ~call.result.threw
       /\ c.PlanCharges = Num(PlanSum(lines))
       /\ c.DevicePayments = Num(DeviceSum(lines))
       /\ c.ServicesAddOns = Num(ServiceSum(lines))
       /\ c.TaxesFees.t = "number"
       /\ c.TaxesFees.v * 100 = 8 * (PlanSum(lines) + DeviceSum(lines) + ServiceSum(lines))

\* C7 witness: two lines, one with every detail and one with absent details
\* and a taxes field, were aggregated.
C7_Witness ==
  /\ call.fn = "calculateChargesByCategory"
  /\ call.done
  /\ call.phoneLines = Arr(<<LineA, LineB>>)
  /\ call.result.value.PlanCharges = Num(D(80))
  /\ call.result.value.TaxesFees = Num(6960)

\* the raw record carries the enhanced marker and a non-empty phoneLines array
MarkerAndLines ==
  /\ call.rawData.billVersion = Str("claude-parser-v1.0")
  /\ call.rawData.phoneLines.t = "array"
  /\ Len(call.rawData.phoneLines.v) >= 1

\* the raw record carries the sub-object: the property holds an object
Present(x) == x.t = "object"

\* C11: for a raw record with the enhanced marker and a non-empty phoneLines
\* array, each of usageAnalysis, costAnalysis and planRecommendation that the
\* raw record carries is returned as it came, and each one it does not carry
\* is returned as the default literal: trend "stable" with 25.4 GB, the two
\* canned savings around the raw total (or 0), "Unlimited Plus" at 0.8.
C11_PresentSubObjectsKept ==
  (EnhanceReturned /\ MarkerAndLines) =>
    LET raw == call.rawData
        e == call.result.value
    IN /\ IF Present(raw.usageAnalysis)
            THEN e.usageAnalysis = raw.usageAnalysis
            ELSE /\ e.usageAnalysis.trend = Str("stable")
                 /\ e.usageAnalysis.percentageChange = Num(0)
                 /\ e.usageAnalysis.avg_data_usage_gb = Num(25400)
       /\ IF Present(raw.costAnalysis)
            THEN e.costAnalysis = raw.costAnalysis
            ELSE /\ e.costAnalysis.averageMonthlyBill =
                      (IF raw.totalAmount.t = "number" THEN raw.totalAmount ELSE Num(0))
                 /\ Len(e.costAnalysis.potentialSavings.v) = 2
                 /\ e.costAnalysis.unusualCharges = Arr(<<>>)
       /\ IF Present(raw.planRecommendation)
            THEN e.planRecommendation = raw.planRecommendation
            ELSE /\ e.planRecommendation.recommendedPlan = "Unlimited Plus"
                 /\ e.planRecommendation.confidenceScore = Num(800)
                 /\ Len(e.planRecommendation.alternativePlans.v) = 1

\* C11 witness: a marked record that carries its own planRecommendation and
\* no usageAnalysis was normalized: the first came back as given, the second
\* as the default.
C11_Witness ==
  /\ EnhanceReturned
  /\ MarkerAndLines
  /\ call.rawData.planRecommendation = GivenPlanRecommendation
  /\ call.rawData.usageAnalysis = Undefined
  /\ call.result.value.planRecommendation = GivenPlanRecommendation
  /\ call.result.value.usageAnalysis = DefaultUsageAnalysis

\* the only line of the returned record
OnlyLine == call.result.value.phoneLines.v[1]

\* C12 (the claim as stated): with no enhanced marker and no phone line, a
\* raw record whose totalAmount is a number T comes back with a single
\* placeholder line of monthlyTotal T, planCost 0.7 T, devicePayment 0.2 T
\* and protection 0.1 T.
C12_PlaceholderFromTotal ==
  (EnhanceReturned /\ NoLinesNoMarker /\ call.rawData.totalAmount.t = "number") =>
    LET T == call.rawData.totalAmount.v IN
    /\ Len(call.result.value.phoneLines.v) = 1
    /\ OnlyLine.monthlyTotal = Num(T)
    /\ OnlyLine.details.planCost = Num((T * 7) \div 10)
    /\ OnlyLine.details.devicePayment = Num((T * 2) \div 10)
    /\ OnlyLine.details.protection = Num(T \div 10)

\* the raw chargesByCategory uses the legacy keys plans/devices/services/taxes
UsesLegacyKeys(c) ==
  /\ c.t = "object"
  /\ \/ Defined(c.plans)
     \/ Defined(c.devices)
     \/ Defined(c.services)
     \/ Defined(c.taxes)

\* C13 (the claim as stated): when the raw chargesByCategory uses the legacy
\* keys, the returned chargesByCategory holds the totals computed from the
\* returned phoneLines; in every other case it is the all-zero map.
C13_RecomputedOrZero ==
  EnhanceReturned =>
    LET e == call.result.value IN
    IF UsesLegacyKeys(call.rawData.chargesByCategory)
      THEN /\ e.chargesByCategory.t = "object"
           /\ e.chargesByCategory.PlanCharges = Num(PlanSum(e.phoneLines.v))
           /\ e.chargesByCategory.DevicePayments = Num(DeviceSum(e.phoneLines.v))
           /\ e.chargesByCategory.ServicesAddOns = Num(ServiceSum(e.phoneLines.v))
           /\ e.chargesByCategory.TaxesFees.t = "number"
      ELSE e.chargesByCategory = ZeroCharges

\* the record addManualLineCharges builds was built
ManualBuilt ==
  /\ call.fn = "addManualLineCharges"
  /\ call.done
  /\ ~call.result.threw

\* a number of [0, 1]
InUnitInterval(x) == x.t = "number" /\ 0 <= x.v /\ x.v <= D(1)

Trends == {Str("stable"), Str("increasing"), Str("decreasing")}

\* C14 (the claim as stated): every record enhanceBillData returns or
\* addManualLineCharges builds has a planRecommendation.confidenceScore in
\* [0, 1] and a usageAnalysis.trend among stable, increasing, decreasing.
C14_ScoreAndTrendInRange ==
  (EnhanceReturned \/ ManualBuilt) =>
    /\ InUnitInterval(call.result.value.planRecommendation.confidenceScore)
    /\ call.result.value.usageAnalysis.trend \in Trends

\* C15 (the claim as stated): for a raw record without totalAmount, every
\* value enhanceBillData derives from it is the number computed from 0:
\* averageMonthlyBill, projectedNextBill, the alternative plan's monthlyCost,
\* and the placeholder line's monthlyTotal, planCost, devicePayment and
\* protection are all 0.
C15_DerivedFromZero ==
  (EnhanceReturned /\ call.rawData.totalAmount = Undefined) =>
    LET raw == call.rawData
        e == call.result.value
    IN /\ ~(MarkerAndLines /\ Present(raw.costAnalysis)) =>
            /\ e.costAnalysis.averageMonthlyBill = Num(0)
            /\ e.costAnalysis.projectedNextBill = Num(0)
       /\ ~(MarkerAndLines /\ Present(raw.planRecommendation)) =>
            e.planRecommendation.alternativePlans.v[1].monthlyCost = Num(0)
       /\ NoPhoneLines(raw) =>
            /\ OnlyLine.monthlyTotal = Num(0)
            /\ OnlyLine.details.planCost = Num(0)
            /\ OnlyLine.details.devicePayment = Num(0)
            /\ OnlyLine.details.protection = Num(0)

---------------------------------------------------------------------------
(* Properties of calculateCarrierSavings, checked under Spec.              *)

\* a quote has just been computed
Quoted == call.fn = "calculateCarrierSavings"

\* the plan id the carrier of the call resolves to
ResolvedId ==
  CASE call.carrierId = "darkstar" -> "darkstar-premium"
    [] call.carrierId = "warp" -> "warp-premium"
    [] call.carrierId = "lightspeed" -> "lightspeed-premium"
    [] OTHER -> call.match

\* the resolved plan id is the id of a plan of the catalog
InCatalog ==
  \E i \in 1..Len(alternativeCarrierPlans) : alternativeCarrierPlans[i].id = ResolvedId

\* monthlySavings is totalAmount - price (NaN when totalAmount is undefined)
\* and annualSavings is 12 times monthlySavings
SavingsFromPrice(quote, totalAmount) ==
  IF totalAmount.t = "number"
    THEN /\ quote.price.t = "number"
         /\ quote.monthlySavings = Num(totalAmount.v - quote.price.v)
         /\ quote.annualSavings = Num(12 * (totalAmount.v - quote.price.v))
    ELSE quote.monthlySavings = NaN /\ quote.annualSavings = NaN

\* C8: with billData null the quote is {0, 0, "N/A", 0} for every carrier
\* id, and neither the resolver nor the catalog is consulted.
C8_NoAnalysisQuote ==
  (Quoted /\ call.billData = Null) =>
    /\ call.result.quote = [monthlySavings |-> Num(0), annualSavings |-> Num(0),
                            planName |-> "N/A", price |-> Num(0)]
    /\ ~call.result.resolved
    /\ ~call.result.searched

\* C8 witness: a quote was asked with billData null, for a carrier id that
\* the fixed table does not map.
C8_Witness ==
  Quoted /\ call.billData = Null /\ call.carrierId = "verizon"

\* C9 (the claim as stated): with an analysis and a plan found in the
\* catalog, price is 44 times the number of phone lines, monthlySavings is
\* totalAmount - price and annualSavings is 12 times monthlySavings.
C9_PriceIsFortyFourPerLine ==
  (Quoted /\ Truthy(call.billData) /\ InCatalog
     /\ call.billData.phoneLines.t = "array") =>
    /\ call.result.quote.price = Num(44000 * Len(call.billData.phoneLines.v))
    /\ SavingsFromPrice(call.result.quote, call.billData.totalAmount)

\* C9 (amended): with an analysis and a plan found in the catalog, price is
\* 44 times the number of phone lines, an analysis without phone lines being
\* priced as one line, whatever the listed price of the plan; monthlySavings
\* is totalAmount - price, negative or not, and annualSavings is 12 times it.
C9_PriceIsFortyFourPerLineOrOne ==
  (Quoted /\ Truthy(call.billData) /\ InCatalog
     /\ call.billData.phoneLines.t = "array") =>
    LET n == Len(call.billData.phoneLines.v) IN
    /\ call.result.quote.price = Num(44000 * (IF n = 0 THEN 1 ELSE n))
    /\ SavingsFromPrice(call.result.quote, call.billData.totalAmount)

\* C9 witness: an analysis of 8 lines and a total of 200 was quoted at 352,
\* the savings being negative.
C9_Witness ==
  /\ Quoted
  /\ Truthy(call.billData)
  /\ InCatalog
  /\ Len(call.billData.phoneLines.v) = 8
  /\ call.result.quote.price = Num(352000)
  /\ call.result.quote.monthlySavings = Num(-152000)

\* C10: with an analysis, when the plan id the carrier resolves to (by the
\* fixed table, else by the resolver) is not in the catalog, the quote is
\* {0, 0, "No matching plan", 0}.
C10_NoMatchingPlanQuote ==
  (Quoted /\ Truthy(call.billData) /\ ~InCatalog) =>
    call.result.quote = [monthlySavings |-> Num(0), annualSavings |-> Num(0),
                         planName |-> "No matching plan", price |-> Num(0)]

\* C10 witness: with an analysis present the resolver returned an id that
\* is not in the catalog.
C10_Witness ==
  /\ Quoted
  /\ Truthy(call.billData)
  /\ call.carrierId = "verizon"
  /\ call.match = "no-such-plan"
  /\ ~InCatalog

---------------------------------------------------------------------------
(* Properties of the hook and the component, checked under SpecHook, and   *)
(* under SpecSettling where every call in flight settles.                  *)

\* C16 (the claim as stated): in every reachable state with an analysis,
\* billData.phoneLines has at most 8 entries, whether the analysis came from
\* an upload or from manual entry.
C16_BillDataAtMostEight ==
  Truthy(billData) =>
    /\ billData.phoneLines.t = "array"
    /\ Len(billData.phoneLines.v) <= 8

\* the extraction call fails: network error, non-OK response, or a response
\* that is not an object with an array phoneLines
ExtractionFails(response) ==
  \/ response.kind \in {"networkError", "notOk"}
  \/ response.data.t # "object"
  \/ response.data.phoneLines.t # "array"

\* the message of that failure
FailureMessage(response) ==
  CASE response.kind = "networkError" -> Str("Failed to fetch")
    [] response.kind = "notOk" /\ response.error.t = "string" -> response.error
    [] response.kind = "notOk" -> Str("Failed to analyze bill: 500")
    [] OTHER -> Str("The bill analysis response format is invalid")

\* the number of extraction requests in flight
Fetching(bag) ==
  BagCardinality([op \in {o \in BagToSet(bag) : o.pc = "fetching"} |-> bag[op]])

\* C17: a PDF upload issues one extraction request, and when the extraction
\* call of an upload fails (network error, non-OK response, response without
\* an array phoneLines), billData keeps the value it had, errorMessage
\* becomes the failure message, the operation ends and no further request is
\* issued.
C17_FailedExtractionKeepsBillData ==
  [][/\ handleFileChange("pdf") => Fetching(ops') = Fetching(ops) + 1
     /\ \A op \in BagToSet(ops), response \in Responses :
          (ExtractionFails(response) /\ ExtractionSettles(op, response)) =>
            /\ billData' = billData
            /\ errorMessage' = FailureMessage(response)
            /\ Fetching(ops') = Fetching(ops) - 1
            /\ BagCardinality(ops') = BagCardinality(ops) - 1]_vars

\* C17 witness: with an analysis on display a later upload failed on the
\* network: the analysis is still there, next to the failure message.
C17_Witness ==
  /\ Truthy(billData)
  /\ errorMessage = Str("Failed to fetch")
  /\ ops = EmptyBag
  /\ ~isLoading

\* C18: whenever isLoading is true it becomes false later, each call in
\* flight settling in the end, whether it resolves or rejects.
C18_LoadingEventuallyReset == isLoading ~> ~isLoading

\* C18 witness: an upload awaits the extraction call and a manual entry the
\* persistence call, the loading flag set.
C18_Witness ==
  /\ isLoading
  /\ \E op \in BagToSet(ops) : op.kind = "upload" /\ op.pc = "fetching"
  /\ \E op \in BagToSet(ops) : op.kind = "manual" /\ op.pc = "saving"

\* C19: when the persistence call of an operation fails, billData keeps the
\* analysis set before the call and the loading flag is reset; errorMessage
\* keeps its value, except that for an upload whose enhancedData.ocrProvider
\* is an object without includes, line 307 fails after the call, failed or
\* not.
C19_FailedSaveKeepsAnalysis ==
  [][\A op \in BagToSet(ops) :
       SaveSettles(op, FALSE) =>
         /\ billData' = billData
         /\ ~isLoading'
         /\ \/ errorMessage' = errorMessage
            \/ op.kind = "upload" /\ op.ocr.t = "object"]_vars

\* C19 witness: the persistence call of a manual entry has failed, and the
\* analysis is on display with no error message.
C19_Witness ==
  /\ call.fn = "saveBillAnalysis"
  /\ ~call.saved
  /\ Truthy(billData)
  /\ billData.billVersion = Str("Manual Entry v1.0")
  /\ errorMessage = Null
  /\ ~isLoading

\* C20: a submission of the manual-entry form with no carrier preference
\* selected changes nothing in the hook (billData, isLoading, errorMessage,
\* no operation started) and sets showNetworkError; choosing a preference
\* clears showNetworkError.
C20_SubmitWithoutPreferenceBlocked ==
  [][/\ \A data \in ManualInputs, now \in 1..MaxClock :
          (networkPreference = Null /\ handleSubmitForm(data, now)) =>
            /\ billData' = billData
            /\ isLoading' = isLoading
            /\ errorMessage' = errorMessage
            /\ ops' = ops
            /\ showNetworkError'
            /\ UNCHANGED <<fileSelected, ocrProvider, inputMethod, networkPreference>>
     /\ \A value \in Carriers :
          handleNetworkPreferenceChange(value) =>
            /\ networkPreference' = Str(value)
            /\ ~showNetworkError']_vars

\* C20 witness: the form was submitted with no preference selected: the flag
\* is up, and there is no analysis, no operation and no error message.
C20_Witness ==
  /\ showNetworkError
  /\ networkPreference = Null
  /\ inputMethod = "manual"
  /\ billData = Null
  /\ ops = EmptyBag
  /\ ~isLoading
  /\ errorMessage = Null

---------------------------------------------------------------------------
(* Properties of reset, of overlapping operations and of repeated calls:   *)
(* those of the hook's state under SpecHook, those of enhanceBillData      *)
(* under SpecFunctions, the last one, of calculateCarrierSavings, under     *)
(* Spec.                                                                   *)

\* the quote the estimator returns for carrierId with bd as billData
QuoteFor(carrierId, bd) ==
  {calculateCarrierSavings(carrierId, bd, match, alternativeCarrierPlans).quote :
     match \in findBestCarrierMatch(carrierId)}

\* C21: right after resetBillData, billData is null, fileSelected is false,
\* errorMessage and ocrProvider are null, so that the estimator returns the
\* quote {0, 0, "N/A", 0} for every carrier id; right after handleStartOver,
\* moreover, inputMethod, networkPreference and showNetworkError are as at
\* construction.
C21_StartOverDiscardsAnalysis ==
  [][(Reset \/ handleStartOver) =>
       /\ billData' = Null
       /\ fileSelected' = FALSE
       /\ errorMessage' = Null
       /\ ocrProvider' = Null
       /\ \A carrierId \in CarrierIds :
            QuoteFor(carrierId, billData') =
              {[monthlySavings |-> Num(0), annualSavings |-> Num(0),
                planName |-> "N/A", price |-> Num(0)]}
       /\ handleStartOver =>
            /\ inputMethod' = "none"
            /\ networkPreference' = Null
            /\ showNetworkError' = FALSE]_vars

\* C21 witness: the hook was reset while an upload awaited the persistence
\* call: no analysis, no file selected, no message, and the upload still in
\* flight.
C21_Witness ==
  /\ billData = Null
  /\ ~fileSelected
  /\ errorMessage = Null
  /\ ocrProvider = Null
  /\ inputMethod = "none"
  /\ networkPreference = Null
  /\ ~showNetworkError
  /\ \E op \in BagToSet(ops) : op.kind = "upload" /\ op.pc = "saving"

\* C22 (the claim as stated): in no reachable state is isLoading true while
\* errorMessage is non-null.
C22_NeverLoadingWithError == ~(isLoading /\ errorMessage # Null)

\* C23 (the claim as stated): a call of enhanceBillData leaves the raw record
\* handed to it as it was, its phoneLines included.
C23_RawRecordUnchanged ==
  (call.fn = "enhanceBillData" /\ call.done) => call.rawDataAfter = call.rawData

\* C24 (the claim as stated): the record enhanceBillData returns for a raw
\* record is the record it returns for that raw record under any other
\* stored ocrProvider.
C24_SameRecordWhateverTheState ==
  EnhanceReturned =>
    \A ocr \in OcrStates : enhanceBillData(call.rawData, ocr) = call.result

\* C25 (the claim as stated): enhanceBillData called on a record it has
\* returned returns an equal record, chargesByCategory and phoneLines
\* included.
C25_SecondNormalizationEqual ==
  EnhanceReturned =>
    /\ ~call.again.threw
    /\ call.again.value.phoneLines = call.result.value.phoneLines
    /\ call.again.value.chargesByCategory = call.result.value.chargesByCategory
    /\ call.again.value = call.result.value

\* C26 (the claim as stated): isLoading is true in every state in which an
\* upload or a manual entry started through the hook has not yet finished.
C26_LoadingWhileInFlight == ops # EmptyBag => isLoading

\* C27 (the claim as stated): with no analysis and no file selected, as
\* resetBillData leaves them, the completion of an extraction call (an upload
\* in flight with fileSelected false was started before the reset) leaves
\* billData null and errorMessage as it was.
C27_LateCompletionIgnored ==
  [][\A op \in BagToSet(ops), response \in Responses :
       (billData = Null /\ ~fileSelected /\ ExtractionSettles(op, response)) =>
         /\ billData' = Null
         /\ errorMessage' = errorMessage]_vars

\* the analysis of the call has no phone line: phoneLines absent or empty
QuotedWithoutLines ==
  /\ Quoted
  /\ Truthy(call.billData)
  /\ \/ call.billData.phoneLines.t \in {"undefined", "null"}
     \/ call.billData.phoneLines = Arr(<<>>)

\* C28 (the claim as stated): an analysis whose phoneLines is absent or empty
\* is quoted at price 44, with monthlySavings totalAmount - 44.
C28_NoLinesPricedAsOne ==
  QuotedWithoutLines =>
    /\ call.result.quote.price = Num(44000)
    /\ call.result.quote.monthlySavings = Minus(call.billData.totalAmount, Num(44000))

\* C28 (amended): an analysis whose phoneLines is absent or empty is quoted
\* as one line, price 44 with monthlySavings totalAmount - 44, when the
\* carrier resolves to a plan of the catalog; when it does not, the quote is
\* {0, 0, "No matching plan", 0}.
C28_NoLinesPricedAsOneIfPlanFound ==
  QuotedWithoutLines =>
    IF InCatalog
      THEN /\ call.result.quote.price = Num(44000)
           /\ call.result.quote.monthlySavings =
                Minus(call.billData.totalAmount, Num(44000))
      ELSE call.result.quote = [monthlySavings |-> Num(0), annualSavings |-> Num(0),
                                planName |-> "No matching plan", price |-> Num(0)]

\* C28 witness: a manual entry with no line and a total of 100 was quoted
\* for a carrier of the fixed table: 44, saving 56.
C28_Witness ==
  /\ QuotedWithoutLines
  /\ call.carrierId = "warp"
  /\ call.billData.phoneLines = Arr(<<>>)
  /\ call.result.quote.price = Num(44000)
  /\ call.result.quote.monthlySavings = Num(56000)

====
